---- MODULE Spec2Model ----
(***************************************************************************)
(* Model of src/monitor.py: the API health monitor.                        *)
(*                                                                         *)
(* main() reads the configuration and starts APIMonitor.monitor(), whose   *)
(* loop calls check_api_health(), decides on a notification, calls         *)
(* send_telegram_message() and sleeps.  The environment supplies the       *)
(* outcome of every GET and POST, unexpected errors in the loop body and   *)
(* the external interrupt (KeyboardInterrupt).  Timestamps and log lines   *)
(* are not modelled, except the outcome each log line stands for.          *)
(***************************************************************************)
EXTENDS Integers, Sequences, FiniteSets, TLC

VARIABLES
    entry,               \* "main": started through main(); "direct": APIMonitor built by a caller
    api_url,             \* "" when unset/empty
    telegram_bot_token,  \* "" when unset/empty
    telegram_chat_id,    \* "" when unset/empty
    check_interval,      \* seconds, any integer
    pc,                  \* position of the single thread of control
    exit,                \* how the process/monitor() ended ("running" while it has not)
    error_from,          \* where the last Exception reaching line 158 was raised
    previous_healthy,    \* local of monitor()
    is_healthy,          \* locals of monitor() assigned by line 117
    status_code,
    message,
    get_net,             \* what the target does with the GET in flight
    post_net,            \* what the provider does with the POST in flight
    arrived,             \* what the GET of this iteration came back with
    post_arrived,        \* what the POST of this iteration came back with
    telegram_message,    \* the rendered text handed to send_telegram_message
    delivered,           \* return value of the last send_telegram_message call
    iter_prev,           \* previous_healthy as it was when the iteration began
    attempts,            \* send_telegram_message calls made in this iteration
    posts,               \* POSTs issued in this iteration
    prev_iter,           \* notification summary of the previous completed iteration
    script_pos,          \* completed-or-running iterations matching Scenario so far
    script_notes,        \* notification attempts made in those iterations
    unhealthy_run,       \* consecutive unhealthy checks (saturating at MaxRun)
    down_run,            \* "down" attempts made in that run (saturating at MaxRun)
    interrupted_at,      \* position at which the KeyboardInterrupt arrived ("none" before)
    gap,                 \* what separates the loop from its last check: "start", "checked", "slept"
    down_pending,        \* a "down" was attempted since the last "back online" attempt
    orphan_up,           \* a "back online" was attempted with no "down" attempt before it
    lost                 \* an unexpected error struck between line 120 and the "down" call,
                         \* or between a "back online" call and line 150

config == <<entry, api_url, telegram_bot_token, telegram_chat_id, check_interval>>
locals == <<previous_healthy, is_healthy, status_code, message>>
net == <<get_net, post_net, arrived, post_arrived>>
notifier == <<telegram_message, delivered>>
iteration == <<iter_prev, attempts, posts, prev_iter>>
script == <<script_pos, script_notes>>
runs == <<unhealthy_run, down_run>>
control == <<exit, error_from>>
order == <<down_pending, orphan_up>>
vars == <<config, pc, control, locals, net, notifier, iteration, script, runs,
          interrupted_at, gap, order, lost>>

----------------------------------------------------------------------------
(* Bounds and input sets *)

MaxRun == 3

Strings == {"", "set"}
Intervals == {-1, 0, 300}
ResponseCodes == {200, 204, 503}
PostCodes == {200, 403}

Response(c) == [kind |-> "response", code |-> c]
Failure(k) == [kind |-> k, code |-> 0]
Silent == Failure("silent")
Idle == Failure("idle")

\* Exceptions a request can raise: a read timeout, a connect timeout, a refused
\* or broken connection, another error of requests, any other Exception.
GetFailures == {"Timeout", "ConnectTimeout", "ConnectionError",
                "RequestException", "Exception"}

\* The classes of requests.exceptions each of them is an instance of
Classes(kind) ==
    CASE kind = "Timeout" -> {"Timeout", "RequestException", "Exception"}
      [] kind = "ConnectTimeout" ->
            {"ConnectionError", "Timeout", "RequestException", "Exception"}
      [] kind = "ConnectionError" -> {"ConnectionError", "RequestException", "Exception"}
      [] kind = "RequestException" -> {"RequestException", "Exception"}
      [] kind = "KeyboardInterrupt" -> {"KeyboardInterrupt"}
      [] OTHER -> {"Exception"}

\* A try statement runs the first except clause naming a class of the
\* exception; the exception propagates (0) when no clause does.
Clause(clauses, kind) ==
    LET hits == {i \in 1..Len(clauses) : clauses[i] \in Classes(kind)}
    IN IF hits = {} THEN 0 ELSE CHOOSE i \in hits : \A j \in hits : i <= j

\* What can happen to session.get(api_url): a URL without a scheme is refused
\* by requests before anything is sent (MissingSchema, a RequestException).
GetOutcomes(url) ==
    IF url = ""
    THEN {Failure("RequestException")}
    ELSE {Response(c) : c \in ResponseCodes}
         \cup {Failure(k) : k \in GetFailures} \cup {Silent}

PostFailures == {"ConnectionError", "Exception"}
PostOutcomes ==
    {Response(c) : c \in PostCodes} \cup {Failure(k) : k \in PostFailures} \cup {Silent}

----------------------------------------------------------------------------
(* Timeouts: a set holding the bound in seconds, empty for "no timeout" *)

\* line 32 stores 30 in an attribute requests never reads
SessionTimeoutAttribute == {30}
\* line 43 passes no timeout argument, and that argument is the only
\* timeout requests applies to a request
GetTimeout == {}
\* line 92 passes timeout=10
PostTimeout == {10}

\* A request returns when the peer answers or fails, or else when its
\* timeout expires; a silent peer and no timeout block the call for ever.
Returns(outcome, timeout) == outcome # Silent \/ timeout # {}
Arrived(outcome) == IF outcome = Silent THEN Failure("Timeout") ELSE outcome

----------------------------------------------------------------------------
(* check_api_health, lines 41-67, as a function of what the GET did *)

Msg(text, arg) == [text |-> text, arg |-> arg]
CheckResult(h, c, m) ==
    [raised |-> FALSE, is_healthy |-> h, status_code |-> c, message |-> m]
\* the call ends with an exception instead of a tuple
Raised == [raised |-> TRUE, is_healthy |-> FALSE, status_code |-> 0, message |-> Msg("", 0)]

\* any 2xx status taken for success
IsOkAny2xx(code) == code >= 200 /\ code < 300

\* line 45
IsOk(code) == code = 200

\* the catch-all clause of line 64 left out
CheckClausesNoCatchAll == <<"Timeout", "ConnectionError", "RequestException">>

\* a clause added that catches the interrupt inside the check
CheckClausesWithInterrupt ==
    <<"Timeout", "ConnectionError", "RequestException", "Exception", "KeyboardInterrupt">>

\* lines 52, 56, 60, 64
CheckClauses == <<"Timeout", "ConnectionError", "RequestException", "Exception">>

check_api_health(outcome) ==
    IF outcome.kind = "response"
    THEN IF IsOk(outcome.code)
         THEN CheckResult(TRUE, outcome.code, Msg("API is responding normally", 0))
         ELSE CheckResult(FALSE, outcome.code, Msg("API returned status", outcome.code))
    ELSE LET c == Clause(CheckClauses, outcome.kind) IN
         IF c = 0 THEN Raised
         ELSE CASE CheckClauses[c] = "Timeout" ->
                     CheckResult(FALSE, 0, Msg("API request timed out", 0))
                [] CheckClauses[c] = "ConnectionError" ->
                     CheckResult(FALSE, 0, Msg("Failed to connect to API", 0))
                [] CheckClauses[c] = "RequestException" ->
                     CheckResult(FALSE, 0, Msg("Request failed", 0))
                [] OTHER ->
                     CheckResult(FALSE, 0, Msg("Unexpected error", 0))

----------------------------------------------------------------------------
(* send_telegram_message, lines 69-101 *)

\* the guard testing the token alone
ConfiguredTokenOnly(token, chat) == token # ""

\* line 79: the guard that returns False before any request is made
Configured(token, chat) == token # "" /\ chat # ""

\* line 99
SendClauses == <<"Exception">>

\* lines 91-101: the boolean the call returns for what the POST did, or the
\* exception it ends with
SendResult(ok) == [raised |-> FALSE, ok |-> ok]
SendRaised == [raised |-> TRUE, ok |-> FALSE]
send_telegram_message(outcome) ==
    IF outcome.kind = "response"
    THEN SendResult(outcome.code = 200)
    ELSE IF Clause(SendClauses, outcome.kind) = 0 THEN SendRaised
         ELSE SendResult(FALSE)

----------------------------------------------------------------------------
(* The rendered notification, lines 122-129 and 138-145 (timestamp left out) *)

Render(headline, url, code, msg) ==
    [headline |-> headline, url |-> url, status_code |-> code, message |-> msg]
NoMessage == Render("", "", 0, Msg("", 0))

\* the status code of the "down" message hard-wired to 0
DownMessageWithoutCode(url, code, msg) == Render("Server is down", url, 0, msg)

DownMessage(url, code, msg) == Render("Server is down", url, code, msg)
UpMessage(url, code, msg) == Render("Server is back online", url, code, msg)

Kind(m) == IF m.headline = "Server is down" THEN "down"
           ELSE IF m.headline = "Server is back online" THEN "up"
           ELSE "none"

----------------------------------------------------------------------------
(* The scripted scenario of the specification's section 8 *)

Scenario == << Response(200), Response(200), Failure("Timeout"),
               Response(200), Response(200) >>

NoIter == [kind |-> "none", delivered |-> FALSE]

----------------------------------------------------------------------------
(* The state after the interpreter has loaded the module *)

Init ==
    /\ entry \in {"main", "direct"}
    /\ api_url \in Strings
    /\ telegram_bot_token \in Strings
    /\ telegram_chat_id \in Strings
    /\ check_interval \in Intervals
    /\ pc = "start"
    /\ exit = "running"
    /\ error_from = "none"
    /\ previous_healthy = TRUE
    /\ is_healthy = TRUE
    /\ status_code = 0
    /\ message = Msg("", 0)
    /\ get_net = Idle
    /\ post_net = Idle
    /\ arrived = Idle
    /\ post_arrived = Idle
    /\ telegram_message = NoMessage
    /\ delivered = FALSE
    /\ iter_prev = TRUE
    /\ attempts = 0
    /\ posts = 0
    /\ prev_iter = NoIter
    /\ script_pos = 0
    /\ script_notes = << >>
    /\ unhealthy_run = 0
    /\ down_run = 0
    /\ interrupted_at = "none"
    /\ gap = "start"
    /\ down_pending = FALSE
    /\ orphan_up = FALSE
    /\ lost = FALSE

----------------------------------------------------------------------------
(* main, lines 162-186 *)

\* the test of lines 180-182 left out
MissingChatIgnored(url, token, chat) == url = "" \/ token = ""

\* lines 171-182: any of the three values missing ends the process with 1
Missing(url, token, chat) == url = "" \/ token = "" \/ chat = ""

\* the loop started in the unhealthy state
InitiallyUnhealthy == FALSE

\* line 113
InitiallyHealthy == TRUE

main ==
    /\ pc = "start"
    /\ entry = "main"
    /\ IF Missing(api_url, telegram_bot_token, telegram_chat_id)
       THEN pc' = "done" /\ exit' = "exit1"
       ELSE pc' = "check" /\ exit' = exit
    /\ previous_healthy' = InitiallyHealthy
    /\ UNCHANGED <<config, error_from, is_healthy, status_code, message, net, notifier,
                   iteration, script, runs,
                   interrupted_at, gap, order, lost>>

\* A caller (a test, another script) builds APIMonitor itself, lines 27-32,
\* and calls monitor(), lines 110-113: nothing is validated on this path.
construct ==
    /\ pc = "start"
    /\ entry = "direct"
    /\ pc' = "check"
    /\ previous_healthy' = InitiallyHealthy
    /\ UNCHANGED <<config, control, is_healthy, status_code, message, net,
                   notifier, iteration, script, runs,
                   interrupted_at, gap, order, lost>>

----------------------------------------------------------------------------
(* monitor, lines 115-160 *)

\* line 117 entering check_api_health, up to the GET of line 43 being sent
check_call ==
    /\ pc = "check"
    /\ \E o \in GetOutcomes(api_url) : get_net' = o
    /\ pc' = "get"
    /\ iter_prev' = previous_healthy
    /\ attempts' = 0
    /\ posts' = 0
    /\ arrived' = Idle
    /\ post_arrived' = Idle
    /\ gap' = "checked"
    /\ UNCHANGED <<config, control, locals, post_net, notifier, prev_iter,
                   script, runs,
                   interrupted_at, order, lost>>

Saturate(n) == IF n < MaxRun THEN n + 1 ELSE n

\* lines 43-67 and the assignment of line 117; an exception leaving
\* check_api_health would reach line 158
check_return ==
    /\ pc = "get"
    /\ Returns(get_net, GetTimeout)
    /\ LET r == check_api_health(Arrived(get_net)) IN
         /\ is_healthy' = IF r.raised THEN is_healthy ELSE r.is_healthy
         /\ status_code' = IF r.raised THEN status_code ELSE r.status_code
         /\ message' = IF r.raised THEN message ELSE r.message
         /\ pc' = IF r.raised THEN "handler" ELSE "decide"
         /\ error_from' = IF r.raised THEN "check_api_health" ELSE error_from
         /\ unhealthy_run' = IF r.raised \/ r.is_healthy THEN 0 ELSE Saturate(unhealthy_run)
         /\ down_run' = IF r.raised \/ r.is_healthy THEN 0 ELSE down_run
         /\ IF /\ ~r.raised
               /\ script_pos >= 0
               /\ script_pos < Len(Scenario)
               /\ Arrived(get_net) = Scenario[script_pos + 1]
            THEN script_pos' = script_pos + 1 /\ script_notes' = script_notes
            ELSE script_pos' = -1 /\ script_notes' = << >>
    /\ arrived' = Arrived(get_net)
    /\ get_net' = Idle
    /\ UNCHANGED <<config, exit, previous_healthy, post_net, post_arrived,
                   notifier, iteration,
                   interrupted_at, gap, order, lost>>

\* the test of line 136 inverted
NotificationInverted(healthy, previous) ==
    IF ~healthy THEN "down"
    ELSE IF previous THEN "up"
    ELSE "none"

\* "down" sent on the healthy -> unhealthy edge only
NotificationEdge(healthy, previous) ==
    IF ~healthy THEN (IF previous THEN "down" ELSE "none")
    ELSE IF ~previous THEN "up"
    ELSE "none"

\* the test of line 136 left out
NotificationAlways(healthy, previous) ==
    IF ~healthy THEN "down" ELSE "up"

\* lines 119 and 135-136: which notification the iteration owes
Notification(healthy, previous) ==
    IF ~healthy THEN "down"
    ELSE IF ~previous THEN "up"
    ELSE "none"

\* lines 119-130 and 135-145: the branch taken, line 120, the rendering
decide ==
    /\ pc = "decide"
    /\ LET n == Notification(is_healthy, previous_healthy) IN
         /\ pc' = IF n = "none" THEN "sleep" ELSE "notify"
         /\ previous_healthy' = IF n = "down" THEN FALSE ELSE previous_healthy
         /\ telegram_message' =
              IF n = "down" THEN DownMessage(api_url, status_code, message)
              ELSE IF n = "up" THEN UpMessage(api_url, status_code, message)
              ELSE telegram_message
    /\ UNCHANGED <<config, control, is_healthy, status_code, message, net,
                   delivered, iteration, script, runs,
                   interrupted_at, gap, order, lost>>

Note(m) == [iteration |-> script_pos, kind |-> Kind(m), status_code |-> m.status_code]

\* lines 131 / 146 calling send_telegram_message, lines 79-92
send_call ==
    /\ pc = "notify"
    /\ attempts' = attempts + 1
    /\ IF Configured(telegram_bot_token, telegram_chat_id)
       THEN /\ \E o \in PostOutcomes : post_net' = o
            /\ posts' = posts + 1
            /\ delivered' = delivered
            /\ pc' = "post"
       ELSE /\ post_net' = post_net
            /\ posts' = posts
            /\ delivered' = FALSE
            /\ pc' = "sent"
    /\ script_notes' = IF script_pos >= 0
                       THEN Append(script_notes, Note(telegram_message))
                       ELSE script_notes
    /\ down_run' = IF Kind(telegram_message) = "down"
                   THEN Saturate(down_run) ELSE down_run
    /\ down_pending' = (Kind(telegram_message) = "down")
    /\ orphan_up' = (orphan_up \/ (Kind(telegram_message) = "up" /\ ~down_pending))
    /\ UNCHANGED <<config, control, locals, get_net, arrived, post_arrived,
                   telegram_message, iter_prev, prev_iter, script_pos,
                   unhealthy_run,
                   interrupted_at, gap, lost>>

\* lines 92-101: the POST comes back (or times out) and the call returns
send_return ==
    /\ pc = "post"
    /\ Returns(post_net, PostTimeout)
    /\ LET r == send_telegram_message(Arrived(post_net)) IN
         /\ delivered' = IF r.raised THEN delivered ELSE r.ok
         /\ pc' = IF r.raised THEN "handler" ELSE "sent"
         /\ error_from' = IF r.raised THEN "send_telegram_message" ELSE error_from
    /\ post_arrived' = Arrived(post_net)
    /\ post_net' = Idle
    /\ UNCHANGED <<config, exit, locals, get_net, arrived, telegram_message,
                   iteration, script, runs,
                   interrupted_at, gap, order, lost>>

\* line 150 dedented out of the else branch: it runs after a "down" too
RecordedAlways(healthy, previous, ok) == TRUE

\* line 150 left out
RecordedNever(healthy, previous, ok) == previous

\* "back online" recorded only once its message was delivered
RecordedIfDelivered(healthy, previous, ok) == IF healthy THEN ok ELSE previous

\* lines 131-134 leave previous_healthy alone; lines 146-150 set it whether
\* or not the message was delivered
Recorded(healthy, previous, ok) == IF healthy THEN TRUE ELSE previous

after_send ==
    /\ pc = "sent"
    /\ previous_healthy' = Recorded(is_healthy, previous_healthy, delivered)
    /\ pc' = "sleep"
    /\ UNCHANGED <<config, control, is_healthy, status_code, message, net,
                   notifier, iteration, script, runs,
                   interrupted_at, gap, order, lost>>

\* time.sleep raises ValueError for a negative length
SleepRaises(seconds) == seconds < 0

\* the call of time.sleep left out
AfterSleepSkipped(seconds, g) == g

\* lines 153 and 160: the loop has slept once time.sleep returns
AfterSleep(seconds, g) == IF SleepRaises(seconds) THEN g ELSE "slept"

Summary == [kind |-> IF attempts = 0 THEN "none" ELSE Kind(telegram_message),
            delivered |-> attempts > 0 /\ delivered]

\* line 153
sleep ==
    /\ pc = "sleep"
    /\ pc' = IF SleepRaises(check_interval) THEN "handler" ELSE "check"
    /\ prev_iter' = Summary
    /\ gap' = AfterSleep(check_interval, gap)
    /\ error_from' = IF SleepRaises(check_interval) THEN "sleep" ELSE error_from
    /\ UNCHANGED <<config, exit, locals, net, notifier, iter_prev, attempts,
                   posts, script, runs,
                   interrupted_at, order, lost>>

\* Where an error handled by line 158 leaves the loop: line 160 sleeps
\* outside the try, so what it raises leaves monitor()
AfterError(seconds) == IF SleepRaises(seconds) THEN "done" ELSE "check"

\* lines 158-160
handler ==
    /\ pc = "handler"
    /\ pc' = AfterError(check_interval)
    /\ exit' = IF pc' = "done" THEN "error" ELSE exit
    /\ gap' = AfterSleep(check_interval, gap)
    /\ UNCHANGED <<config, error_from, locals, net, notifier, iteration, script, runs,
                   interrupted_at, order, lost>>

\* The statements of the try body that run in monitor() itself, outside the
\* two calls that catch their own errors
BodyPoints == {"decide", "notify", "sent", "sleep"}
\* Every position inside the try of lines 116-153
TryPoints == BodyPoints \cup {"check", "get", "post"}

\* An unexpected error (any Exception) raised by a statement of the loop body
fault ==
    /\ pc \in BodyPoints
    /\ pc' = "handler"
    /\ prev_iter' = NoIter
    /\ script_pos' = -1
    /\ script_notes' = << >>
    /\ unhealthy_run' = 0
    /\ down_run' = 0
    /\ error_from' = "body"
    /\ lost' = (lost \/ (pc = "notify" /\ ~is_healthy) \/ (pc = "sent" /\ is_healthy))
    /\ UNCHANGED <<config, exit, locals, net, notifier, iter_prev, attempts, posts,
                   interrupted_at, gap, order>>

\* lines 155 and 158
MonitorClauses == <<"KeyboardInterrupt", "Exception">>

KeyboardInterrupt == Failure("KeyboardInterrupt")

\* Where a KeyboardInterrupt raised at a position ends up: inside a call whose
\* own except clauses name it, the call goes on ("swallowed"); otherwise it
\* reaches the try of line 116, whose clause of line 155 stops the loop;
\* at line 159-160, outside every try, it leaves monitor().
Landing(point) ==
    IF point = "get" /\ ~check_api_health(KeyboardInterrupt).raised THEN "swallowed"
    ELSE IF point = "post" /\ ~send_telegram_message(KeyboardInterrupt).raised
         THEN "swallowed"
    ELSE IF point \in TryPoints /\ Clause(MonitorClauses, "KeyboardInterrupt") # 0
         THEN IF MonitorClauses[Clause(MonitorClauses, "KeyboardInterrupt")]
                     = "KeyboardInterrupt"
              THEN "stopped" ELSE "handler"
    ELSE "escaped"

\* The signal arrives: Python raises KeyboardInterrupt in the statement that
\* is running, a blocking GET, POST or sleep included
interrupt ==
    /\ pc \in TryPoints \cup {"handler"}
    /\ interrupted_at' = pc
    /\ LET to == Landing(pc)
           r == check_api_health(KeyboardInterrupt)
       IN /\ pc' = IF to = "swallowed" THEN (IF pc = "get" THEN "decide" ELSE "sent")
                   ELSE IF to = "handler" THEN "handler"
                   ELSE "done"
          /\ exit' = IF to = "stopped" THEN "stopped"
                     ELSE IF to = "escaped" THEN "interrupt"
                     ELSE exit
          /\ is_healthy' = IF to = "swallowed" /\ pc = "get" THEN r.is_healthy ELSE is_healthy
          /\ status_code' = IF to = "swallowed" /\ pc = "get" THEN r.status_code ELSE status_code
          /\ message' = IF to = "swallowed" /\ pc = "get" THEN r.message ELSE message
          /\ arrived' = IF to = "swallowed" /\ pc = "get" THEN KeyboardInterrupt ELSE arrived
          /\ post_arrived' = IF to = "swallowed" /\ pc = "post"
                             THEN KeyboardInterrupt ELSE post_arrived
          /\ delivered' = IF to = "swallowed" /\ pc = "post" THEN FALSE ELSE delivered
    /\ get_net' = Idle
    /\ post_net' = Idle
    /\ UNCHANGED <<config, error_from, previous_healthy, telegram_message,
                   iteration, script, runs, gap, order, lost>>

Next ==
    \/ main
    \/ construct
    \/ check_call
    \/ check_return
    \/ decide
    \/ send_call
    \/ send_return
    \/ after_send
    \/ sleep
    \/ handler
    \/ fault
    \/ interrupt

Spec == Init /\ [][Next]_vars

\* The interpreter keeps running the thread: every step of the program is
\* taken once it can be.  The environment's fault and interrupt are not owed.
Program ==
    \/ main
    \/ construct
    \/ check_call
    \/ check_return
    \/ decide
    \/ send_call
    \/ send_return
    \/ after_send
    \/ sleep
    \/ handler

FairSpec == Spec /\ WF_vars(Program)

----------------------------------------------------------------------------
(* Properties of the monitor loop *)

\* Positions at which line 117 of the running iteration has returned
Checked == {"decide", "notify", "post", "sent", "sleep"}
\* Positions at which the iteration's notification, if it owes one, was attempted
Notified == {"post", "sent", "sleep"}

UpAttempted == attempts > 0 /\ Kind(telegram_message) = "up"
DownAttempted == attempts > 0 /\ Kind(telegram_message) = "down"

\* C1: a "back online" notification is attempted in an iteration if and only
\* if the iteration's check is healthy and previous_healthy was false when
\* the iteration began.
C1_BackOnlineIff ==
    /\ UpAttempted => (is_healthy /\ ~iter_prev)
    /\ (pc \in Notified /\ is_healthy /\ ~iter_prev) => (UpAttempted /\ attempts = 1)

C1_Witness ==
    pc = "sleep" /\ is_healthy /\ ~iter_prev /\ UpAttempted

\* C2: every iteration whose check is unhealthy makes exactly one "down"
\* attempt, whatever previous_healthy was; k consecutive unhealthy checks
\* make k "down" attempts.
C2_DownEveryTime ==
    /\ (pc \in Notified /\ ~is_healthy) => (attempts = 1 /\ DownAttempted)
    /\ pc \in Notified => down_run = unhealthy_run

C2_Witness ==
    /\ pc = "sleep"
    /\ ~is_healthy
    /\ ~iter_prev
    /\ DownAttempted
    /\ unhealthy_run = MaxRun
    /\ down_run = MaxRun

\* C3: an iteration whose check is healthy while previous_healthy is true
\* does not call the notifier and leaves previous_healthy true.
C3_QuietWhenHealthy ==
    (pc \in {"notify", "post", "sent", "sleep"} /\ is_healthy /\ iter_prev)
        => (pc = "sleep" /\ attempts = 0 /\ posts = 0 /\ previous_healthy)

C3_Witness ==
    pc = "sleep" /\ is_healthy /\ iter_prev /\ attempts = 0 /\ previous_healthy

\* The notification attempts the scenario owes after k of its iterations
ScenarioNotes(k) ==
    LET down == [iteration |-> 3, kind |-> "down", status_code |-> 0]
        up == [iteration |-> 4, kind |-> "up", status_code |-> 200]
    IN IF k < 3 THEN << >> ELSE IF k = 3 THEN <<down>> ELSE <<down, up>>

\* C4: a fresh loop fed 200, 200, timeout, 200, 200 attempts no notification
\* in iterations 1, 2 and 5, one "down" with status code 0 in iteration 3 and
\* one "back online" in iteration 4: two notifications in all.
C4_Scenario ==
    (script_pos \in 1..Len(Scenario) /\ pc \in {"notify", "post", "sent", "sleep"}) =>
        /\ script_notes = ScenarioNotes(IF pc = "notify" THEN script_pos - 1 ELSE script_pos)
        /\ script_pos \in {1, 2, 5} => (pc = "sleep" /\ attempts = 0)
        /\ script_pos \in {3, 4} => (pc = "notify" \/ attempts = 1)

C4_Witness ==
    /\ script_pos = Len(Scenario)
    /\ pc = "sleep"
    /\ Len(script_notes) = 2
    /\ attempts = 0

\* C5: the check reports healthy if and only if a response with status
\* exactly 200 arrived; a response with another status c is reported
\* unhealthy with status code c.
C5_HealthyIff200 ==
    pc \in Checked =>
        /\ is_healthy <=> (arrived.kind = "response" /\ arrived.code = 200)
        /\ arrived.kind = "response" => status_code = arrived.code

C5_Witness ==
    pc = "decide" /\ arrived = Response(503) /\ ~is_healthy /\ status_code = 503

\* C6: every transport failure of the GET is returned as unhealthy with
\* status code 0, never raised out of check_api_health, and the result for
\* a connection failure differs from the result for a timeout.
C6_TransportFailures ==
    /\ error_from # "check_api_health"
    /\ pc \in Checked =>
        /\ arrived.kind \in GetFailures => (~is_healthy /\ status_code = 0)
        /\ arrived.kind \in {"Timeout", "ConnectTimeout"}
               <=> message.text = "API request timed out"
        /\ arrived.kind = "ConnectionError"
               <=> message.text = "Failed to connect to API"

C6_Witness ==
    /\ pc = "decide"
    /\ arrived.kind = "ConnectionError"
    /\ ~is_healthy
    /\ status_code = 0
    /\ message.text = "Failed to connect to API"

\* C7: every GET is issued with a bounded timeout, so a health check whose
\* target never answers still returns (as "timed out") and the loop goes on.
C7_CheckReturns == (pc = "get") ~> (pc # "get")

\* C8: the notifier returns true if and only if token and chat id are both
\* non-empty and the provider answered the POST with 200; otherwise it
\* returns false, it never raises, and with an empty token or chat id it
\* issues no POST.
C8_NotifierResult ==
    /\ error_from # "send_telegram_message"
    /\ (telegram_bot_token = "" \/ telegram_chat_id = "") => posts = 0
    /\ pc = "sent" =>
        /\ delivered <=> /\ telegram_bot_token # ""
                         /\ telegram_chat_id # ""
                         /\ post_arrived = Response(200)
        /\ (telegram_bot_token # "" /\ telegram_chat_id # "") => posts = 1

C8_Witness ==
    /\ pc = "sent"
    /\ telegram_bot_token # ""
    /\ telegram_chat_id = ""
    /\ attempts = 1
    /\ posts = 0
    /\ ~delivered

\* C9: a failed notification is not retried: an iteration never calls the
\* notifier twice, reaches its sleep with previous_healthy updated as if the
\* delivery had succeeded, and a healthy check that follows a failed
\* "back online" delivery sends nothing.
C9_NoRetry ==
    /\ attempts <= 1
    /\ pc = "sleep" => previous_healthy = is_healthy
    /\ (pc \in Checked /\ is_healthy /\ prev_iter.kind = "up" /\ ~prev_iter.delivered)
           => (pc \in {"decide", "sleep"} /\ attempts = 0)

C9_Witness ==
    /\ pc = "sleep"
    /\ is_healthy
    /\ prev_iter = [kind |-> "up", delivered |-> FALSE]
    /\ previous_healthy
    /\ attempts = 0

\* C10: an unexpected error raised inside an iteration is logged and slept
\* on, and the loop goes on: the error never propagates out of monitor().
C10_ErrorNeverEscapes == exit # "error"

\* C11: an interrupt delivered at any moment of the running loop (check,
\* notification, sleep, or the sleep after a logged error) stops it
\* gracefully: the stop is logged, monitor() returns normally and the
\* interrupt never escapes.
C11_GracefulStop ==
    interrupted_at # "none" => (pc = "done" /\ exit = "stopped")

\* C12 as stated: an interrupt arriving during a check or a notification does
\* not abort the call, which completes before the loop stops.
C12_CallCompletes ==
    /\ (interrupted_at = "get" /\ pc = "done") => arrived # Idle
    /\ (interrupted_at = "post" /\ pc = "done") => post_arrived # Idle

\* C12 as amended: an interrupt arriving anywhere inside the try, a GET or a
\* POST in flight included, aborts what is running and stops the loop at
\* once through line 155; the aborted call's result is never produced and
\* line 150 is not reached.
C12_InterruptAborts ==
    /\ interrupted_at \in TryPoints => (pc = "done" /\ exit = "stopped")
    /\ interrupted_at = "get" => (arrived = Idle /\ attempts = 0)
    /\ interrupted_at = "post" =>
          /\ post_arrived = Idle
          /\ attempts = 1
          /\ is_healthy => ~previous_healthy

C12_Witness ==
    /\ interrupted_at = "post"
    /\ pc = "done"
    /\ exit = "stopped"
    /\ is_healthy
    /\ ~previous_healthy

\* C13: without an external interrupt the loop never exits on its own:
\* after every health check another health check is eventually made.
C13_ChecksRecur ==
    (pc = "decide") ~> (pc = "get" \/ exit \in {"stopped", "interrupt"})

\* C14: started through main() with the URL, the token or the chat id
\* missing, the process exits with code 1 before the monitor is built: no
\* health check and no notification is made in that run.
C14_MissingConfigExits ==
    (entry = "main" /\ (api_url = "" \/ telegram_bot_token = "" \/ telegram_chat_id = ""))
        => /\ pc \in {"start", "done"}
           /\ pc = "done" => exit = "exit1"
           /\ get_net = Idle /\ arrived = Idle /\ gap = "start"
           /\ attempts = 0 /\ posts = 0 /\ post_net = Idle

C14_Witness ==
    /\ entry = "main"
    /\ api_url # ""
    /\ telegram_bot_token # ""
    /\ telegram_chat_id = ""
    /\ pc = "done"
    /\ exit = "exit1"

\* C15: an iteration runs one health check, then at most one notification,
\* then one sleep: no notification before the iteration's check has
\* returned, never two network calls in flight, and a sleep between any two
\* consecutive health checks.
C15_StepOrder ==
    /\ ~(get_net # Idle /\ post_net # Idle)
    /\ get_net # Idle => pc = "get"
    /\ post_net # Idle => pc = "post"
    /\ attempts <= 1 /\ posts <= attempts
    /\ (pc \in {"notify", "post", "sent"} \/ (pc \in TryPoints \ {"check"} /\ attempts > 0))
           => (arrived # Idle /\ gap = "checked")
    /\ pc = "check" => gap \in {"start", "slept"}

C15_Witness ==
    /\ pc = "check"
    /\ gap = "slept"
    /\ attempts = 1
    /\ posts = 1
    /\ arrived # Idle

\* C16: at the sleep of line 153 previous_healthy equals the healthiness of
\* the check just made; it changes only at lines 120 and 150, only in an
\* iteration whose check differs from the recorded state, and to the value
\* of that check: the checker, the notifier and the sleep leave it alone.
C16_RecordedState ==
    /\ [](pc = "sleep" => previous_healthy = is_healthy)
    /\ [][previous_healthy' # previous_healthy =>
             /\ pc \in {"decide", "sent"}
             /\ is_healthy # previous_healthy
             /\ previous_healthy' = is_healthy]_vars

C16_Witness ==
    pc = "sleep" /\ is_healthy /\ previous_healthy /\ ~iter_prev /\ attempts = 1

C18_MessageOfThisCheck ==
    (pc \in {"notify", "post", "sent"} \/ (pc = "sleep" /\ attempts > 0)) =>
        /\ telegram_message.status_code = status_code
        /\ telegram_message.message = message
        /\ telegram_message.url = api_url
        /\ arrived.kind = "response" => telegram_message.status_code = arrived.code
        /\ Kind(telegram_message) = "up" => telegram_message.status_code = 200
        /\ Kind(telegram_message) = "down" =>
              /\ telegram_message.status_code # 200
              /\ telegram_message.status_code = 0 <=> arrived.kind \in GetFailures

C18_Witness ==
    /\ pc = "post"
    /\ Kind(telegram_message) = "down"
    /\ arrived = Response(503)
    /\ telegram_message.status_code = 503
    /\ prev_iter.kind = "down"

====
